---- MODULE Spec2Model ----
(***************************************************************************)
(* A model of prysm's detector sampling (prysm/detector.py) and of its MTF *)
(* engine (code6/otf.py).                                                  *)
(*                                                                         *)
(* Arrays are sequences of rows; Python's 0-based indices and slices are   *)
(* kept by the helpers PyAt and PySlice.  Real numbers that the code       *)
(* produces by division (numpy means, the MTF normalisation) are reduced   *)
(* fractions <<num, den>>; den = 0 stands for numpy's inf (num # 0) and    *)
(* nan (num = 0).  Python's None and the exceptions a call ends with are   *)
(* records and strings.                                                    *)
(***************************************************************************)
EXTENDS Integers, Sequences, FiniteSets, TLC

VARIABLES pixel_size, resolution, bit_depth, captures, call,
          mtf, interpf, builds, mcall,
          precision, precision_complex, parallel_rgb, backend, zernike_base,
          ccall

vars == <<pixel_size, resolution, bit_depth, captures, call,
          mtf, interpf, builds, mcall,
          precision, precision_complex, parallel_rgb, backend, zernike_base,
          ccall>>

\* the module-level configuration of prysm/conf.py, and the last call on it
confvars == <<precision, precision_complex, parallel_rgb, backend,
              zernike_base, ccall>>

detvars == <<pixel_size, resolution, bit_depth, captures, call>>

mtfvars == <<mtf, interpf, builds, mcall>>

(***************************************************************************)
(* Bounds of the model.                                                    *)
(***************************************************************************)
MaxSamples == 5

MaxVal == 3

MaxPixel == 3

MaxSpacing == 2

MaxCaptures == 3

MaxN == 3

MaxLen == 3

(***************************************************************************)
(* Python values.                                                          *)
(***************************************************************************)
None == [kind |-> "None"]

PyNone == [kind |-> "NoneType", s |-> <<>>, i |-> 0]

PyInt(n) == [kind |-> "int", s |-> <<>>, i |-> n]

PyStr(chars) == [kind |-> "str", s |-> chars, i |-> 0]

PyFloat(n) == [kind |-> "float", s |-> <<>>, i |-> n]

UpperCase == <<"A","B","C","D","E","F","G","H","I","J","K","L","M",
               "N","O","P","Q","R","S","T","U","V","W","X","Y","Z">>

LowerCase == <<"a","b","c","d","e","f","g","h","i","j","k","l","m",
               "n","o","p","q","r","s","t","u","v","w","x","y","z">>

\* str.lower(), character by character
LowerChar(c) ==
    IF \E k \in DOMAIN UpperCase : UpperCase[k] = c
    THEN LowerCase[CHOOSE k \in DOMAIN UpperCase : UpperCase[k] = c]
    ELSE c

Lower(chars) == [k \in DOMAIN chars |-> LowerChar(chars[k])]

\* s[idx] for a Python index (negative counts from the end); the caller
\* checks PyIndexOk first, as Python raises IndexError otherwise
PyIndexOk(s, idx) == idx >= -Len(s) /\ idx < Len(s)

PyAt(s, idx) == IF idx < 0 THEN s[Len(s) + idx + 1] ELSE s[idx + 1]

\* the bounds of s[lo:hi] on an axis of n elements, as Python clamps them
PyClamp(n, idx) ==
    IF idx < 0 THEN (IF n + idx < 0 THEN 0 ELSE n + idx)
    ELSE (IF idx > n THEN n ELSE idx)

PySliceLen(n, lo, hi) ==
    IF PyClamp(n, hi) > PyClamp(n, lo) THEN PyClamp(n, hi) - PyClamp(n, lo) ELSE 0

PySlice(s, lo, hi) ==
    [k \in 1..PySliceLen(Len(s), lo, hi) |-> s[PyClamp(Len(s), lo) + k]]

\* s[lo:]
PySliceFrom(s, lo) == PySlice(s, lo, Len(s))

(***************************************************************************)
(* Arithmetic.                                                             *)
(***************************************************************************)
RECURSIVE GCD(_, _)
GCD(a, b) == IF b = 0 THEN a ELSE GCD(b, a % b)

Abs(a) == IF a < 0 THEN -a ELSE a

\* a / b in lowest terms; x/0 is inf, 0/0 is nan (numpy warns, does not raise)
Frac(a, b) ==
    IF b = 0 THEN (IF a = 0 THEN <<0, 0>> ELSE <<1, 0>>)
    ELSE LET g == GCD(Abs(a), Abs(b))
             sgn == IF b < 0 THEN -1 ELSE 1
         IN  <<sgn * (a \div g), sgn * (b \div g)>>

One == <<1, 1>>

\* int(np.ceil(a / b)) for positive a, b
CeilDiv(a, b) == (a + b - 1) \div b

is_odd(n) == n % 2 = 1

RECURSIVE SumTo(_, _)
SumTo(f, n) == IF n = 0 THEN 0 ELSE f[n - 1] + SumTo(f, n - 1)

(***************************************************************************)
(* Detector (prysm/detector.py).                                           *)
(***************************************************************************)
DefaultBits == 14

DefaultResolution == <<1024, 1024>>

PSF(data, sample_spacing, samples_x, samples_y) ==
    [kind |-> "PSF", data |-> data, sample_spacing |-> sample_spacing,
     samples_x |-> samples_x, samples_y |-> samples_y]

Image(data, sample_spacing) ==
    [kind |-> "Image", data |-> data, sample_spacing |-> sample_spacing]

\* Image.as_psf(): the same samples at the same spacing, seen as a PSF
as_psf(image) ==
    PSF(image.data, image.sample_spacing, Len(image.data),
        IF Len(image.data) = 0 THEN 0 ELSE Len(image.data[1]))

samples_per_pixel(ps, psf) == CeilDiv(ps, psf.sample_spacing)

\* psf.data[lox:hix, loy:hiy]
Slice2D(data, lox, hix, loy, hiy) ==
    LET rows == PySlice(data, lox, hix)
    IN  [r \in DOMAIN rows |-> PySlice(rows[r], loy, hiy)]

\* lines 37-57: the bounds [lox:hix, loy:hiy] of the slice of psf.data that
\* sample_psf keeps; the branch is chosen by the parity of residual_x alone
trimmed_data(ps, psf) ==
    LET spp == samples_per_pixel(ps, psf)
        total_samples_x == psf.samples_x \div spp
        total_samples_y == psf.samples_y \div spp
        final_idx_x == total_samples_x * spp
        final_idx_y == total_samples_y * spp
        residual_x == psf.samples_x - final_idx_x
        residual_y == psf.samples_y - final_idx_y
    IN  IF ~ is_odd(residual_x)
        THEN LET samples_to_trim_x == residual_x \div 2
                 samples_to_trim_y == residual_y \div 2
             IN  [lox |-> samples_to_trim_x,
                  hix |-> final_idx_x + samples_to_trim_x,
                  loy |-> samples_to_trim_y,
                  hiy |-> final_idx_y + samples_to_trim_y]
        ELSE LET samples_top == CeilDiv(residual_y, 2)
                 samples_bottom == CeilDiv(residual_y, 2)
                 samples_left == CeilDiv(residual_x, 2)
                 samples_right == residual_x \div 2
             IN  [lox |-> samples_left,
                  hix |-> final_idx_x + samples_right,
                  loy |-> samples_bottom,
                  hiy |-> final_idx_y + samples_top]

\* lines 59-62: reshape to (total_x, spp, total_y, spp) in C order, which
\* numpy refuses (ValueError) unless the element counts agree, then the
\* mean over axes 1 and 3
Rebin(ps, psf) ==
    LET spp == samples_per_pixel(ps, psf)
        tx == psf.samples_x \div spp
        ty == psf.samples_y \div spp
        t == trimmed_data(ps, psf)
        rows == PySliceLen(psf.samples_x, t.lox, t.hix)
        cols == PySliceLen(psf.samples_y, t.loy, t.hiy)
        block == Slice2D(psf.data, t.lox, t.hix, t.loy, t.hiy)
        flat == [k \in 0..(rows * cols - 1) |->
                    block[(k \div cols) + 1][(k % cols) + 1]]
        view(a, b, c, d) == flat[((a * spp + b) * ty + c) * spp + d]
        cell(a, c) ==
            Frac(SumTo([k \in 0..(spp * spp - 1) |->
                           view(a, k \div spp, c, k % spp)], spp * spp),
                 spp * spp)
    IN  IF rows * cols # tx * spp * ty * spp
        THEN [outcome |-> "ValueError", data |-> <<>>, samples_x |-> tx,
              samples_y |-> ty]
        ELSE [outcome |-> "ok",
              data |-> [a \in 1..tx |-> [c \in 1..ty |-> cell(a - 1, c - 1)]],
              samples_x |-> tx, samples_y |-> ty]

\* a capture that keeps the spacing of the PSF it was sampled from
CapturedPSF_inputSpacing(ps, psf, r) ==
    PSF(r.data, psf.sample_spacing, r.samples_x, r.samples_y)

\* lines 64-67: the PSF that is captured
CapturedPSF(ps, psf, r) == PSF(r.data, ps, r.samples_x, r.samples_y)

\* a history that holds the latest capture only
AppendCapture_latestOnly(caps, c) == <<c>>

\* self.captures.append(c)
AppendCapture(caps, c) == Append(caps, c)

Call(op, outcome, arg, which, acted, ret) ==
    [op |-> op, outcome |-> outcome, arg |-> arg, which |-> which,
     acted |-> acted, ret |-> ret]

sample_psf(psf) ==
    LET r == Rebin(pixel_size, psf)
    IN  /\ IF r.outcome = "ok"
           THEN /\ captures' = AppendCapture(captures, CapturedPSF(pixel_size, psf, r))
                /\ call' = Call("sample_psf", "ok", psf, PyNone, None,
                                PyAt(captures', -1))
           ELSE /\ captures' = captures
                /\ call' = Call("sample_psf", r.outcome, psf, PyNone, None, None)
        /\ UNCHANGED <<pixel_size, resolution, bit_depth>>
        /\ UNCHANGED <<mtfvars, confvars>>

\* an Image that keeps the spacing of the image it was sampled from
SampledImage_inputSpacing(intermediate_psf, image) ==
    Image(intermediate_psf.data, image.sample_spacing)

\* lines 81-82: the Image that is captured
SampledImage(intermediate_psf, image) ==
    Image(intermediate_psf.data, intermediate_psf.sample_spacing)

sample_image(image) ==
    LET r == Rebin(pixel_size, as_psf(image))
        intermediate_psf == CapturedPSF(pixel_size, as_psf(image), r)
    IN  /\ IF r.outcome = "ok"
           THEN /\ captures' =
                      AppendCapture(AppendCapture(captures, intermediate_psf),
                                    SampledImage(intermediate_psf, image))
                /\ call' = Call("sample_image", "ok", image, PyNone, None,
                                PyAt(captures', -1))
           ELSE /\ captures' = captures
                /\ call' = Call("sample_image", r.outcome, image, PyNone, None, None)
        /\ UNCHANGED <<pixel_size, resolution, bit_depth>>
        /\ UNCHANGED <<mtfvars, confvars>>

LastStr == <<"l", "a", "s", "t">>

\* lines 98-103: the capture save_image acts on, or the exception it ends
\* with.  which.lower() comes first, and only a str has it
save_select(which, caps) ==
    IF which.kind # "str"
    THEN [outcome |-> "AttributeError", on |-> None]
    ELSE IF Lower(which.s) = LastStr
    THEN IF PyIndexOk(caps, -1)
         THEN [outcome |-> "ok", on |-> PyAt(caps, -1)]
         ELSE [outcome |-> "IndexError", on |-> None]
    ELSE IF which.kind = "int"
    THEN IF PyIndexOk(caps, which.i)
         THEN [outcome |-> "ok", on |-> PyAt(caps, which.i)]
         ELSE [outcome |-> "IndexError", on |-> None]
    ELSE [outcome |-> "ValueError", on |-> None]

\* lines 125-129: as save_select, but with no else branch: the call then
\* returns the fig and ax it was given
show_select(which, caps) ==
    IF which.kind # "str"
    THEN [outcome |-> "AttributeError", on |-> None]
    ELSE IF Lower(which.s) = LastStr
    THEN IF PyIndexOk(caps, -1)
         THEN [outcome |-> "ok", on |-> PyAt(caps, -1)]
         ELSE [outcome |-> "IndexError", on |-> None]
    ELSE IF which.kind = "int"
    THEN IF PyIndexOk(caps, which.i)
         THEN [outcome |-> "ok", on |-> PyAt(caps, which.i)]
         ELSE [outcome |-> "IndexError", on |-> None]
    ELSE [outcome |-> "ok", on |-> None]

save_image(which) ==
    LET r == save_select(which, captures)
    IN  /\ call' = Call("save_image", r.outcome, None, which, r.on, None)
        /\ UNCHANGED <<pixel_size, resolution, bit_depth, captures>>
        /\ UNCHANGED <<mtfvars, confvars>>

show_image(which) ==
    LET r == show_select(which, captures)
    IN  /\ call' = Call("show_image", r.outcome, None, which, r.on,
                        IF r.outcome = "ok" THEN [kind |-> "fig_ax"] ELSE None)
        /\ UNCHANGED <<pixel_size, resolution, bit_depth, captures>>
        /\ UNCHANGED <<mtfvars, confvars>>

(***************************************************************************)
(* Inputs.                                                                 *)
(***************************************************************************)
UniformData(sx, sy, v) == [i \in 1..sx |-> [j \in 1..sy |-> v]]

\* every sample differs, so that a block's mean tells where the block was
RampData(sx, sy) ==
    [i \in 1..sx |-> [j \in 1..sy |-> (i - 1) * (MaxSamples + 1) + j]]

Datas(sx, sy) == {UniformData(sx, sy, v) : v \in 1..MaxVal} \cup {RampData(sx, sy)}

PSFInputs ==
    UNION {{PSF(d, sp, sx, sy) : d \in Datas(sx, sy)} :
              <<sx, sy, sp>> \in (1..MaxSamples) \X (1..MaxSamples) \X (1..MaxSpacing)}

IsUniform(psf, v) ==
    \A i \in 1..psf.samples_x : \A j \in 1..psf.samples_y : psf.data[i][j] = v

\* the few inputs of the capture-history specification
HistPSFs == {PSF(RampData(n, n), 1, n, n) : n \in {2, 3}}

HistImages == {Image(RampData(n, n), 1) : n \in {2, 3}}

Whichs ==
    {PyStr(<<"l","a","s","t">>), PyStr(<<"L","A","S","T">>),
     PyStr(<<"L","a","s","t">>), PyStr(<<"f","i","r","s","t">>),
     PyStr(<<"f","o","o">>), PyNone, PyFloat(0)}
    \cup {PyInt(i) : i \in (-MaxCaptures)..MaxCaptures}

(***************************************************************************)
(* MTF (code6/otf.py).                                                     *)
(***************************************************************************)
NoMTF == [kind |-> "None"]

\* MTF.__init__
MTF(data, unit) ==
    [kind |-> "MTF", data |-> data, unit |-> unit, samples |-> Len(unit),
     center |-> Len(unit) \div 2]

\* the PSF's own sample count and center index (square sampling)
psf_samples(psf) == psf.samples_x

psf_center(psf) == psf_samples(psf) \div 2

\* the centered frequency axis of `samples` points: index floor(samples/2)
\* is frequency 0
forward_ft_unit(sample_spacing, samples) ==
    [k \in 1..samples |->
        Frac((k - 1) - (samples \div 2), samples * sample_spacing)]

\* the sample counts whose DFT kernel exp(-2 pi i e / n) is 1 or -1, so that
\* the transform is computed exactly in the integers
ExactFFTSizes == {1, 2}

Twiddle(n, e) == IF n = 2 /\ e % 2 = 1 THEN -1 ELSE 1

\* numpy.fft.fft2, 0-based output indices k, l
fft2(data, n) ==
    [k \in 0..(n - 1) |-> [l \in 0..(n - 1) |->
        SumTo([q \in 0..(n * n - 1) |->
                  data[(q \div n) + 1][(q % n) + 1]
                  * Twiddle(n, k * (q \div n)) * Twiddle(n, l * (q % n))],
              n * n)]]

\* numpy.fft.fftshift on both axes: output index i holds input index
\* (i - floor(n/2)) mod n
fftshift(f, n) ==
    [i \in 0..(n - 1) |-> [j \in 0..(n - 1) |->
        f[(i - (n \div 2)) % n][(j - (n \div 2)) % n]]]

\* an MTF normalised by the corner sample of the shifted transform
from_psf_cornerNorm(psf) ==
    LET n == psf_samples(psf)
        dat == fftshift(fft2(psf.data, n), n)
    IN  MTF([i \in 1..n |-> [j \in 1..n |->
                Frac(Abs(dat[i - 1][j - 1]), Abs(dat[0][0]))]],
            forward_ft_unit(psf.sample_spacing, n))

\* lines 185-187
from_psf(psf) ==
    LET n == psf_samples(psf)
        dat == fftshift(fft2(psf.data, n), n)
        c == psf_center(psf)
    IN  MTF([i \in 1..n |-> [j \in 1..n |->
                Frac(Abs(dat[i - 1][j - 1]), Abs(dat[c][c]))]],
            forward_ft_unit(psf.sample_spacing, n))

\* lines 57-60: unit[center:-1], data[center, center:-1]
tan(m) ==
    <<PySlice(m.unit, m.center, -1),
      PySlice(PyAt(m.data, m.center), m.center, -1)>>

\* lines 63-66: unit[center:-1], data[center:-1, center]
sag(m) ==
    <<PySlice(m.unit, m.center, -1),
      LET rows == PySlice(m.data, m.center, -1)
      IN  [r \in DOMAIN rows |-> PyAt(rows[r], m.center)]>>

Spline(m) == [kind |-> "spline", x |-> m.unit, y |-> m.unit, z |-> m.data]

\* an interpolant that is built on every query
make_interp_function_always(m, f) == [interpf |-> Spline(m), built |-> 1]

\* lines 177-181: build the interpolant unless the instance has one
make_interp_function(m, f) ==
    IF f = None THEN [interpf |-> Spline(m), built |-> 1]
    ELSE [interpf |-> f, built |-> 0]

\* float(self.interpf.ev(x, y)): the interpolant's value at (x, y), kept as
\* the point and the samples the interpolant was built from
Ev(f, pt) == [x |-> pt[1], y |-> pt[2], z |-> f.z]

\* coordinates.polar_to_cart, lines 46-48; the products are kept symbolic
polar_to_cart(rho, phi) ==
    <<[rho |-> rho, fn |-> "cos", phi |-> phi],
      [rho |-> rho, fn |-> "sin", phi |-> phi]>>

Num(n) == [kind |-> "num", v |-> n]

List(l) == [kind |-> "list", v |-> l]

NoArg == [kind |-> "None", v |-> 0]

Min(a, b) == IF a < b THEN a ELSE b

\* Python's zip: pairs up to the shorter sequence
Zip(a, b) == [k \in 1..Min(Len(a), Len(b)) |-> <<a[k], b[k]>>]

\* a default of a single zero, whatever the number of frequencies
default_azimuths_single(freqs, azimuths) ==
    IF azimuths.kind = "None"
    THEN (IF freqs.kind = "num" THEN Num(0) ELSE List(<<0>>))
    ELSE azimuths

\* lines 82-87
default_azimuths(freqs, azimuths) ==
    IF azimuths.kind = "None"
    THEN (IF freqs.kind = "num" THEN Num(0)
          ELSE List([k \in 1..Len(freqs.v) |-> 0]))
    ELSE azimuths

\* lines 114-119
default_y(x, y) ==
    IF y.kind = "None"
    THEN (IF x.kind = "num" THEN Num(0)
          ELSE List([k \in 1..Len(x.v) |-> 0]))
    ELSE y

\* lines 89-98, with the interpolant f; zip raises TypeError when handed a
\* number for azimuths
exact_polar_ret(f, freqs, azimuths) ==
    LET az == default_azimuths(freqs, azimuths)
    IN  IF freqs.kind = "num"
        THEN [outcome |-> "ok",
              ret |-> Num(Ev(f, polar_to_cart(freqs.v, az.v)))]
        ELSE IF az.kind # "list"
        THEN [outcome |-> "TypeError", ret |-> NoArg]
        ELSE LET z == Zip(freqs.v, az.v)
             IN  [outcome |-> "ok",
                  ret |-> List([k \in DOMAIN z |->
                                   Ev(f, polar_to_cart(z[k][1], z[k][2]))])]

\* lines 121-128
exact_xy_ret(f, x, y) ==
    LET y1 == default_y(x, y)
    IN  IF x.kind = "num"
        THEN [outcome |-> "ok", ret |-> Num(Ev(f, <<x.v, y1.v>>))]
        ELSE IF y1.kind # "list"
        THEN [outcome |-> "TypeError", ret |-> NoArg]
        ELSE LET z == Zip(x.v, y1.v)
             IN  [outcome |-> "ok",
                  ret |-> List([k \in DOMAIN z |-> Ev(f, <<z[k][1], z[k][2]>>)])]

MCall(op, outcome, a1, a2, ret) ==
    [op |-> op, outcome |-> outcome, a1 |-> a1, a2 |-> a2, ret |-> ret]

New(data, unit) ==
    /\ mtf = NoMTF
    /\ mtf' = MTF(data, unit)
    /\ mcall' = MCall("__init__", "ok", NoArg, NoArg, NoArg)
    /\ UNCHANGED <<interpf, builds>>
    /\ UNCHANGED <<detvars, confvars>>

FromPsf(psf) ==
    /\ mtf = NoMTF
    /\ mtf' = from_psf(psf)
    /\ mcall' = MCall("from_psf", "ok", psf, NoArg, NoArg)
    /\ UNCHANGED <<interpf, builds>>
    /\ UNCHANGED <<detvars, confvars>>

Tan ==
    /\ mtf # NoMTF
    /\ mcall' = MCall("tan", "ok", NoArg, NoArg, tan(mtf))
    /\ UNCHANGED <<mtf, interpf, builds>>
    /\ UNCHANGED <<detvars, confvars>>

Sag ==
    /\ mtf # NoMTF
    /\ mcall' = MCall("sag", "ok", NoArg, NoArg, sag(mtf))
    /\ UNCHANGED <<mtf, interpf, builds>>
    /\ UNCHANGED <<detvars, confvars>>

exact_polar(freqs, azimuths) ==
    LET b == make_interp_function(mtf, interpf)
        r == exact_polar_ret(b.interpf, freqs, azimuths)
    IN  /\ mtf # NoMTF
        /\ interpf' = b.interpf
        /\ builds' = builds + b.built
        /\ mcall' = MCall("exact_polar", r.outcome, freqs, azimuths, r.ret)
        /\ UNCHANGED mtf
        /\ UNCHANGED <<detvars, confvars>>

exact_xy(x, y) ==
    LET b == make_interp_function(mtf, interpf)
        r == exact_xy_ret(b.interpf, x, y)
    IN  /\ mtf # NoMTF
        /\ interpf' = b.interpf
        /\ builds' = builds + b.built
        /\ mcall' = MCall("exact_xy", r.outcome, x, y, r.ret)
        /\ UNCHANGED mtf
        /\ UNCHANGED <<detvars, confvars>>

\* the caller assigns the instance's data attribute
SetData(data) ==
    /\ mtf # NoMTF
    /\ Len(data) = mtf.samples
    /\ data # mtf.data
    /\ mtf' = [mtf EXCEPT !.data = data]
    /\ mcall' = MCall("set_data", "ok", NoArg, NoArg, NoArg)
    /\ UNCHANGED <<interpf, builds>>
    /\ UNCHANGED <<detvars, confvars>>

(***************************************************************************)
(* Inputs of the MTF specifications.                                       *)
(***************************************************************************)
MTFRamp(n) ==
    [i \in 1..n |-> [j \in 1..n |-> Frac((i - 1) * (MaxN + 1) + j, 1)]]

MTFFlat(n) == [i \in 1..n |-> [j \in 1..n |-> One]]

MTFUnit(n) == [k \in 1..n |-> Frac((k - 1) - (n \div 2), 1)]

MTFDatas(n) == {MTFRamp(n), MTFFlat(n)}

\* square PSFs of every sample value, of the sizes transformed exactly
FFTInputs ==
    UNION {{PSF(d, sp, n, n) : d \in [1..n -> [1..n -> 0..MaxVal]]} :
              <<n, sp>> \in ExactFFTSizes \X (1..MaxSpacing)}

FFTFew == {PSF(UniformData(n, n, 1), 1, n, n) : n \in ExactFFTSizes}

Scalars == {1}

\* the lists 1..k and k..1: their elements differ, so that a result tells
\* the order and the pairing of its inputs
Lists ==
    {[i \in 1..k |-> i] : k \in 0..MaxLen}
    \cup {[i \in 1..k |-> k + 1 - i] : k \in 0..MaxLen}

\* a number with nothing or a number, a list with nothing, a number or a list
QueryArgs ==
    ({Num(v) : v \in Scalars} \X ({NoArg} \cup {Num(v) : v \in Scalars}))
    \cup ({List(l) : l \in Lists}
          \X ({NoArg} \cup {Num(v) : v \in Scalars} \cup {List(l) : l \in Lists}))

(***************************************************************************)
(* Configuration (prysm/conf.py).  The five module-level values are passed *)
(* through the setters as one record, so that Config(...) is the setters   *)
(* in sequence, stopping at the first that raises.                         *)
(***************************************************************************)
Globals(p, pc, par, b, z) ==
    [precision |-> p, precision_complex |-> pc, parallel_rgb |-> par,
     backend |-> b, zernike_base |-> z]

\* lines 5-9: the values the module is loaded with
ModuleGlobals == Globals(64, 128, TRUE, "np", 1)

Raised(exc, g) == [outcome |-> exc, g |-> g]

Done(g) == [outcome |-> "ok", g |-> g]

\* lines 50-62
set_precision_on(g, p) ==
    IF p \notin {32, 64} THEN Raised("ValueError", g)
    ELSE IF p = 32
    THEN Done([g EXCEPT !.precision = "float32",
                        !.precision_complex = "complex64"])
    ELSE Done([g EXCEPT !.precision = "float64",
                        !.precision_complex = "complex128"])

\* lines 64-66
set_parallel_rgb_on(g, parallel) == Done([g EXCEPT !.parallel_rgb = parallel])

\* lines 68-73; backend.lower() needs a str
set_backend_on(g, b) ==
    IF b.kind # "str" THEN Raised("AttributeError", g)
    ELSE IF Lower(b.s) \notin {<<"n", "p">>, <<"n", "u", "m", "p", "y">>}
    THEN Raised("ValueError", g)
    ELSE Done([g EXCEPT !.backend = "np"])

\* lines 75-80
set_zernike_base_on(g, base) ==
    IF base \notin {0, 1} THEN Raised("ValueError", g)
    ELSE Done([g EXCEPT !.zernike_base = base])

\* lines 45-48: the four setters in turn; an exception ends the call with
\* what the earlier setters have written
Config_on(g, p, parallel, b, base) ==
    LET r1 == set_precision_on(g, p)
        r2 == set_parallel_rgb_on(r1.g, parallel)
        r3 == set_backend_on(r2.g, b)
        r4 == set_zernike_base_on(r3.g, base)
    IN  IF r1.outcome # "ok" THEN r1
        ELSE IF r2.outcome # "ok" THEN r2
        ELSE IF r3.outcome # "ok" THEN r3
        ELSE r4

CurrentGlobals ==
    Globals(precision, precision_complex, parallel_rgb, backend, zernike_base)

\* the module-level values become r.g, and the call is recorded
Store(op, args, r) ==
    /\ precision' = r.g.precision
    /\ precision_complex' = r.g.precision_complex
    /\ parallel_rgb' = r.g.parallel_rgb
    /\ backend' = r.g.backend
    /\ zernike_base' = r.g.zernike_base
    /\ ccall' = [op |-> op, outcome |-> r.outcome, args |-> args]
    /\ UNCHANGED <<detvars, mtfvars>>

Config(p, parallel, b, base) ==
    Store("Config",
          [precision |-> p, parallel_rgb |-> parallel, backend |-> b,
           zernike_base |-> base],
          Config_on(CurrentGlobals, p, parallel, b, base))

set_precision(p) ==
    Store("set_precision", [precision |-> p], set_precision_on(CurrentGlobals, p))

set_parallel_rgb(parallel) ==
    Store("set_parallel_rgb", [parallel_rgb |-> parallel],
          set_parallel_rgb_on(CurrentGlobals, parallel))

set_backend(b) ==
    Store("set_backend", [backend |-> b], set_backend_on(CurrentGlobals, b))

set_zernike_base(base) ==
    Store("set_zernike_base", [zernike_base |-> base],
          set_zernike_base_on(CurrentGlobals, base))

\* line 108: the module ends by making the default Config()
ConfInit ==
    LET r == Config_on(ModuleGlobals, 64, TRUE, PyStr(<<"n", "p">>), 1)
    IN  /\ precision = r.g.precision
        /\ precision_complex = r.g.precision_complex
        /\ parallel_rgb = r.g.parallel_rgb
        /\ backend = r.g.backend
        /\ zernike_base = r.g.zernike_base
        /\ ccall = [op |-> "import", outcome |-> r.outcome, args |-> <<>>]

PrecisionArgs == {16, 32, 64}

BackendArgs ==
    {PyStr(<<"n", "p">>), PyStr(<<"N", "u", "m", "P", "y">>),
     PyStr(<<"c", "u", "d", "a">>)}

BaseArgs == {0, 1, 2}

MTFIdle ==
    /\ mtf = NoMTF
    /\ interpf = None
    /\ builds = 0
    /\ mcall = MCall("none", "ok", NoArg, NoArg, NoArg)


DetInit ==
    /\ pixel_size \in 1..MaxPixel
    /\ resolution = DefaultResolution
    /\ bit_depth = DefaultBits
    /\ captures = <<>>
    /\ call = Call("__init__", "ok", None, PyNone, None, None)

\* the detector with its capture history
Init == DetInit /\ MTFIdle /\ ConfInit

Next ==
    \/ \E psf \in HistPSFs :
          Len(captures) + 1 <= MaxCaptures /\ sample_psf(psf)
    \/ \E image \in HistImages :
          Len(captures) + 2 <= MaxCaptures /\ sample_image(image)
    \/ \E which \in Whichs : save_image(which)
    \/ \E which \in Whichs : show_image(which)

Spec == Init /\ [][Next]_vars

\* sample_psf as a function of its input, on a fresh detector
NextRebin == \E psf \in PSFInputs : captures = <<>> /\ sample_psf(psf)

SpecRebin == Init /\ [][NextRebin]_vars

\* no MTF yet, beside an idle detector
InitMTF == DetInit /\ pixel_size = 1 /\ MTFIdle /\ ConfInit

\* one MTF instance: its construction, its queries, a change of its data
NextMTF ==
    \/ \E n \in 1..MaxN : \E d \in MTFDatas(n) : New(d, MTFUnit(n))
    \/ \E psf \in FFTFew : FromPsf(psf)
    \/ Tan
    \/ Sag
    \/ \E q \in QueryArgs : exact_polar(q[1], q[2])
    \/ \E q \in QueryArgs : exact_xy(q[1], q[2])
    \/ \E n \in 1..MaxN : \E d \in MTFDatas(n) : SetData(d)

SpecMTF == InitMTF /\ [][NextMTF]_vars

\* from_psf as a function of its input
NextFromPsf == \E psf \in FFTInputs : FromPsf(psf)

SpecFromPsf == InitMTF /\ [][NextFromPsf]_vars

\* the configuration: Config(...) and its setters
NextConfig ==
    \/ \E p \in PrecisionArgs : \E parallel \in BOOLEAN :
          \E b \in BackendArgs : \E base \in BaseArgs :
              Config(p, parallel, b, base)
    \/ \E p \in PrecisionArgs : set_precision(p)
    \/ \E parallel \in BOOLEAN : set_parallel_rgb(parallel)
    \/ \E b \in BackendArgs : set_backend(b)
    \/ \E base \in BaseArgs : set_zernike_base(base)

SpecConfig == InitMTF /\ [][NextConfig]_vars


(***************************************************************************)
(* Claims about the detector.                                              *)
(***************************************************************************)

\* C1: captures is an append-only history: it is empty at construction, and
\* no step of sample_psf, sample_image, save_image or show_image, successful
\* or failing, shortens it or changes an entry it already holds.
C1_AppendOnly ==
    /\ captures = <<>>
    /\ [][/\ Len(captures') >= Len(captures)
          /\ \A i \in 1..Len(captures) : captures'[i] = captures[i]]_vars

\* a failing sample_psf call on a detector that already holds captures
C1_Witness ==
    /\ Len(captures) >= 2
    /\ call.op = "sample_psf"
    /\ call.outcome = "ValueError"

\* the rebinning C2 describes: on each axis the residual r is trimmed
\* ceil(r/2) on the left/bottom and floor(r/2) on the right/top (r/2 on both
\* sides when r is even), and every pixel is the mean of its block
ClaimedPixel(psf, spp, a, c) ==
    LET lox == CeilDiv(psf.samples_x % spp, 2)
        loy == CeilDiv(psf.samples_y % spp, 2)
    IN  Frac(SumTo([k \in 0..(spp * spp - 1) |->
                      psf.data[lox + (a - 1) * spp + (k \div spp) + 1]
                              [loy + (c - 1) * spp + (k % spp) + 1]],
                   spp * spp),
             spp * spp)

AtLeastOnePixel(psf) ==
    /\ psf.samples_x >= samples_per_pixel(pixel_size, psf)
    /\ psf.samples_y >= samples_per_pixel(pixel_size, psf)

\* C2: for a PSF of at least one pixel per axis, sample_psf succeeds and
\* returns floor(samples_x/spp) by floor(samples_y/spp) pixels, each the mean
\* of its block of the input trimmed by the ceil/floor rule.
C2_TrimRule ==
    (call.op = "sample_psf" /\ AtLeastOnePixel(call.arg)) =>
        LET psf == call.arg
            spp == samples_per_pixel(pixel_size, psf)
        IN  /\ call.outcome = "ok"
            /\ call.ret.samples_x = psf.samples_x \div spp
            /\ call.ret.samples_y = psf.samples_y \div spp
            /\ \A a \in 1..(psf.samples_x \div spp) :
                  \A c \in 1..(psf.samples_y \div spp) :
                      call.ret.data[a][c] = ClaimedPixel(psf, spp, a, c)

\* C3: a successful sample_psf call appends exactly one PSF, returns it (it
\* is captures[-1]), the PSF's sample_spacing is the detector's pixel_size,
\* and pixel_size, resolution and bit_depth are unchanged.
C3_SamplePsfAppendsOne ==
    [][(call'.op = "sample_psf" /\ call'.outcome = "ok") =>
          /\ Len(captures') = Len(captures) + 1
          /\ SubSeq(captures', 1, Len(captures)) = captures
          /\ captures'[Len(captures')].kind = "PSF"
          /\ call'.ret = captures'[Len(captures')]
          /\ call'.ret.sample_spacing = pixel_size
          /\ UNCHANGED <<pixel_size, resolution, bit_depth>>]_vars

\* a successful sample_psf on a detector that already holds captures, of a
\* PSF sampled finer than the pixels
C3_Witness ==
    /\ call.op = "sample_psf"
    /\ call.outcome = "ok"
    /\ Len(captures) >= 2
    /\ call.arg.sample_spacing # pixel_size
    /\ call.ret.samples_x >= 1

\* C4: a uniform PSF of value v, of at least one pixel per axis, comes out of
\* sample_psf as a PSF whose every pixel is v.
C4_UniformStaysUniform ==
    \A v \in 1..MaxVal :
        (/\ call.op = "sample_psf"
         /\ AtLeastOnePixel(call.arg)
         /\ IsUniform(call.arg, v)) =>
            /\ call.outcome = "ok"
            /\ \A a \in 1..call.ret.samples_x :
                  \A c \in 1..call.ret.samples_y : call.ret.data[a][c] = <<v, 1>>

IsSelect(c) == c.op \in {"save_image", "show_image"}

\* C5: save_image and show_image act on captures[-1] for "last" in any
\* letter case, and on captures[which] for a valid integer index.
C5_SelectsCapture ==
    (IsSelect(call) /\ captures # <<>>) =>
        /\ (call.which.kind = "str" /\ Lower(call.which.s) = LastStr) =>
              (call.outcome = "ok" /\ call.acted = captures[Len(captures)])
        /\ (call.which.kind = "int" /\ PyIndexOk(captures, call.which.i)) =>
              (call.outcome = "ok" /\ call.acted = PyAt(captures, call.which.i))

Recognized(which) ==
    which.kind = "str" /\
    Lower(which.s) \in {LastStr, <<"f", "i", "r", "s", "t">>}

\* C6: save_image and show_image end with ValueError when which is neither
\* a recognized string nor an integer; nothing is saved or shown and
\* captures is unchanged.
C6_InvalidWhichRaises ==
    [][(/\ IsSelect(call')
        /\ ~ Recognized(call'.which)
        /\ call'.which.kind # "int") =>
          /\ call'.outcome = "ValueError"
          /\ call'.acted = None
          /\ captures' = captures]_vars

\* C12: a successful sample_image call grows captures by exactly two
\* entries: first the PSF the delegated sample_psf call captures for the
\* image's PSF, then an Image of that PSF's data at the same sample spacing,
\* the detector's pixel_size; the call returns that Image, which is
\* captures[-1].
C12_SampleImageAppendsTwo ==
    [][(call'.op = "sample_image" /\ call'.outcome = "ok") =>
          LET n == Len(captures)
              psf == as_psf(call'.arg)
          IN  /\ Len(captures') = n + 2
              /\ SubSeq(captures', 1, n) = captures
              /\ captures'[n + 1] =
                    CapturedPSF(pixel_size, psf, Rebin(pixel_size, psf))
              /\ captures'[n + 2].kind = "Image"
              /\ captures'[n + 2].data = captures'[n + 1].data
              /\ captures'[n + 2].sample_spacing = captures'[n + 1].sample_spacing
              /\ captures'[n + 2].sample_spacing = pixel_size
              /\ call'.ret = captures'[n + 2]]_vars

\* a successful sample_image, of an image sampled finer than the pixels, on
\* a detector that already holds a capture
C12_Witness ==
    /\ call.op = "sample_image"
    /\ call.outcome = "ok"
    /\ Len(captures) = 3
    /\ call.arg.sample_spacing # pixel_size
    /\ Len(call.ret.data) >= 1

(***************************************************************************)
(* Claims about the MTF.                                                   *)
(***************************************************************************)
CenterValue(m) == PyAt(PyAt(m.data, m.center), m.center)

\* the zero-frequency term of the PSF's transform: the sum of its samples
DCTerm(psf) ==
    SumTo([q \in 0..(psf.samples_x * psf.samples_y - 1) |->
              psf.data[(q \div psf.samples_y) + 1][(q % psf.samples_y) + 1]],
          psf.samples_x * psf.samples_y)

\* C7 as stated: for any PSF, the MTF from_psf makes is exactly 1 at its own
\* center.
C7_CenterIsOne == mcall.op = "from_psf" => CenterValue(mtf) = One

\* C7, amended: for any PSF whose samples do not sum to zero, the MTF
\* from_psf makes is exactly 1 at its own center.
C7_CenterIsOneNonzeroDC ==
    (mcall.op = "from_psf" /\ DCTerm(mcall.a1) # 0) => CenterValue(mtf) = One

\* an MTF made from a PSF of uneven samples: 1 at the center, less beside it
C7_Witness ==
    /\ mcall.op = "from_psf"
    /\ mtf.samples = 2
    /\ DCTerm(mcall.a1) # 0
    /\ CenterValue(mtf) = One
    /\ mtf.data[1][1] \notin {One, <<0, 1>>}

\* C8: tan is (unit[center:], data[center, center:]) and sag is
\* (unit[center:], data[center:, center]), each of samples - center values
\* up to the last sample; reading them changes neither data, unit nor the
\* interpolant.
C8_HalfSlices ==
    [][/\ mcall'.op = "tan" =>
             /\ mcall'.ret[1] = PySliceFrom(mtf.unit, mtf.center)
             /\ mcall'.ret[2] = PySliceFrom(PyAt(mtf.data, mtf.center), mtf.center)
             /\ Len(mcall'.ret[2]) = mtf.samples - mtf.center
             /\ UNCHANGED <<mtf, interpf>>
       /\ mcall'.op = "sag" =>
             /\ mcall'.ret[1] = PySliceFrom(mtf.unit, mtf.center)
             /\ mcall'.ret[2] =
                   [k \in 1..(mtf.samples - mtf.center) |->
                       PyAt(mtf.data[mtf.center + k], mtf.center)]
             /\ UNCHANGED <<mtf, interpf>>]_vars

IsQuery(c) == c.op \in {"exact_polar", "exact_xy"}

\* the point a query evaluates for the pair (u, w)
QueryPoint(op, u, w) == IF op = "exact_polar" THEN polar_to_cart(u, w) ELSE <<u, w>>

\* C9: given sequences, exact_polar and exact_xy return one value per pair,
\* in input order, min(len, len) of them; with the second argument omitted it
\* is 0 for every element and the result has len(first) values; given one
\* number they return one number.
C9_OnePerPair ==
    IsQuery(mcall) =>
        /\ (mcall.a1.kind = "list" /\ mcall.a2.kind = "list") =>
              /\ mcall.outcome = "ok"
              /\ mcall.ret.kind = "list"
              /\ Len(mcall.ret.v) = Min(Len(mcall.a1.v), Len(mcall.a2.v))
              /\ \A k \in 1..Len(mcall.ret.v) :
                    mcall.ret.v[k] =
                        Ev(interpf, QueryPoint(mcall.op, mcall.a1.v[k], mcall.a2.v[k]))
        /\ (mcall.a1.kind = "list" /\ mcall.a2.kind = "None") =>
              /\ mcall.outcome = "ok"
              /\ mcall.ret.kind = "list"
              /\ Len(mcall.ret.v) = Len(mcall.a1.v)
              /\ \A k \in 1..Len(mcall.ret.v) :
                    mcall.ret.v[k] =
                        Ev(interpf, QueryPoint(mcall.op, mcall.a1.v[k], 0))
        /\ (mcall.a1.kind = "num" /\ mcall.a2.kind = "None") =>
              /\ mcall.outcome = "ok"
              /\ mcall.ret = Num(Ev(interpf, QueryPoint(mcall.op, mcall.a1.v, 0)))
        /\ (mcall.a1.kind = "num" /\ mcall.a2.kind = "num") =>
              /\ mcall.outcome = "ok"
              /\ mcall.ret =
                    Num(Ev(interpf, QueryPoint(mcall.op, mcall.a1.v, mcall.a2.v)))

\* a polar query whose azimuths run out before its frequencies
C9_Witness ==
    /\ mcall.op = "exact_polar"
    /\ mcall.a1.kind = "list"
    /\ mcall.a2.kind = "list"
    /\ Len(mcall.a1.v) > Len(mcall.a2.v)
    /\ Len(mcall.ret.v) >= 2

\* C10: the interpolant is absent after construction, present after the
\* first exact_polar or exact_xy call, and from then on never removed nor
\* rebuilt, whatever the calls and even when data changes: it is built at
\* most once.
C10_BuiltOnce ==
    [][/\ mcall'.op \in {"__init__", "from_psf"} => (interpf' = None /\ builds' = 0)
       /\ IsQuery(mcall') => interpf' # None
       /\ (interpf = None /\ interpf' # None) => IsQuery(mcall')
       /\ interpf # None => interpf' = interpf
       /\ builds' <= 1]_vars

\* a query answered from the interpolant built before the data changed
C10_Witness ==
    /\ IsQuery(mcall)
    /\ interpf # None
    /\ interpf.z # mtf.data
    /\ builds = 1

(***************************************************************************)
(* Claims about the configuration.                                         *)
(***************************************************************************)
ValidPrecision(p) == p \in {32, 64}

ValidBackend(b) ==
    b.kind = "str" /\ Lower(b.s) \in {<<"n", "p">>, <<"n", "u", "m", "p", "y">>}

ValidBase(base) == base \in {0, 1}

\* whether the call c was given a value its setter rejects
HasInvalidValue(c) ==
    \/ c.op = "Config" /\ ~ (/\ ValidPrecision(c.args.precision)
                             /\ ValidBackend(c.args.backend)
                             /\ ValidBase(c.args.zernike_base))
    \/ c.op = "set_precision" /\ ~ ValidPrecision(c.args.precision)
    \/ c.op = "set_backend" /\ ~ ValidBackend(c.args.backend)
    \/ c.op = "set_zernike_base" /\ ~ ValidBase(c.args.zernike_base)

\* C11: Config(...), set_precision, set_backend and set_zernike_base given an
\* invalid value raise ValueError and leave precision, precision_complex,
\* parallel_rgb, backend and zernike_base as they were, also when other
\* arguments of the same Config(...) call are valid.
C11_AllOrNothing ==
    [][HasInvalidValue(ccall') =>
          /\ ccall'.outcome = "ValueError"
          /\ UNCHANGED <<precision, precision_complex, parallel_rgb, backend,
                         zernike_base>>]_vars

====
